---- MODULE Spec2Model ----
(***************************************************************************)
(* Model of sync_and_report.py: one synchronisation run of main(), repeated  *)
(* runs over the same output directory, and save_manifest followed by       *)
(* load_manifest; of main() of download_creator_images.py and new.py; and   *)
(* of the metadata collector of the four scripts.                           *)
(*                                                                          *)
(* The remote listing is sorted "Newest" (api_params, line 169), so a       *)
(* listing is a sequence of records with strictly descending, unique        *)
(* identifiers, served in pages of Limit records.  Python lists whose order *)
(* comes from iterating a set (new_images, deleted_images_data and what is  *)
(* derived from them) are kept as sets: their order is unspecified and no   *)
(* consumer reads it.                                                       *)
(*                                                                          *)
(* The scripts print their progress.  sys.stdout is modelled with the       *)
(* encodings that encode their Chinese messages: utf-8, which also encodes  *)
(* the marks U+2713 and U+2717 of some lines, and gbk, under which print    *)
(* raises UnicodeEncodeError on such a line.                                *)
(***************************************************************************)
EXTENDS Integers, Sequences, FiniteSets, TLC

\* ---- bounds of the model ----
MaxId == 3
MaxThreads == 2
MaxRuns == 2
\* records per listing page ("limit": 200 in api_params, scaled down)
Limit == 2
\* records of the listing and of the manifest file where runs are repeated
MaxRunItems == 1
\* a run that is started on an existing new_images_temp/ finds files of the
\* records 1..MaxStale in it
MaxStale == 1

\* --threads: one worker, or as many as the bound
PoolSizes == {1, MaxThreads}

\* 0 is a falsy identifier: download_and_convert_image skips such a record
Ids == 0..MaxId
Urls == {"https://image"}
Items == [id : Ids, username : {"creator"}, url : Urls]

\* ---- pure helpers ----

\* a key of a Python dict: the str "1" and the int 1 are different keys
PyStr(s) == [t |-> "str", v |-> s]
PyInt(n) == [t |-> "int", v |-> n]

\* str(img['id'])
Str(id) == PyStr(ToString(id))

Range(s) == {s[i] : i \in DOMAIN s}

RECURSIVE Flatten(_)
Flatten(pages) ==
    IF pages = <<>> THEN <<>> ELSE Head(pages) \o Flatten(Tail(pages))

\* the records of S, newest (largest identifier) first
RECURSIVE Newest(_)
Newest(S) ==
    IF S = {} THEN <<>>
    ELSE LET top == CHOOSE x \in S : \A y \in S : y.id <= x.id
         IN  <<top>> \o Newest(S \ {top})

\* the listing cut in pages of at most Limit records; an empty listing is one
\* empty page
RECURSIVE Chunk(_)
Chunk(list) ==
    IF Len(list) <= Limit THEN <<list>>
    ELSE <<SubSeq(list, 1, Limit)>> \o Chunk(SubSeq(list, Limit + 1, Len(list)))

ItemSets == {S \in SUBSET Items : \A a, b \in S : a.id = b.id => a = b}

\* what the remote service can serve: the last page carries no nextPage, or,
\* when it is full, it may carry one that leads to a page without items
Listings ==
    {Chunk(Newest(S)) : S \in ItemSets}
        \cup {Chunk(Newest(S)) \o << <<>> >> :
                  S \in {T \in ItemSets : T # {} /\ Cardinality(T) % Limit = 0}}

DictPut(m, k, v) == [x \in DOMAIN m \cup {k} |-> IF x = k THEN v ELSE m[x]]

\* {str(img['id']): img for img in current_image_list}: a later record
\* replaces an earlier one with the same key
RECURSIVE ImagesMap(_)
ImagesMap(list) ==
    IF list = <<>> THEN <<>>
    ELSE LET last == list[Len(list)]
         IN  DictPut(ImagesMap(SubSeq(list, 1, Len(list) - 1)), Str(last.id), last)

\* the name json.dump gives the member of a key: a str key is written as it
\* is, an int key as its decimal digits
JsonKey(k) == IF k.t = "int" THEN ToString(k.v) ELSE k.v

\* json.dump of a dict: the members of the JSON object, name and value; the
\* records are written field by field and read back as they were
JsonDump(m) == {<<JsonKey(k), m[k]>> : k \in DOMAIN m}

\* json.load of such an object: every member name becomes a str key
JsonLoad(text) ==
    [k \in {PyStr(p[1]) : p \in text} |-> (CHOOSE p \in text : p[1] = k.v)[2]]

NoFile == [st |-> "absent", data |-> {}]
Malformed == [st |-> "malformed", data |-> {}]
ManifestFiles ==
    {NoFile, Malformed}
        \cup {[st |-> "ok", data |-> JsonDump(ImagesMap(Newest(S)))] : S \in ItemSets}

LoadNothing(file) ==
    IF file.st = "malformed" THEN [ok |-> FALSE, data |-> <<>>]
    ELSE [ok |-> TRUE, data |-> <<>>]

LoadCrashMissing(file) ==
    IF file.st = "ok" THEN [ok |-> TRUE, data |-> JsonLoad(file.data)]
    ELSE [ok |-> FALSE, data |-> <<>>]

\* load_manifest: a missing file is an empty manifest, a malformed one makes
\* json.load raise
LoadResult(file) ==
    IF file.st = "absent" THEN [ok |-> TRUE, data |-> <<>>]
    ELSE IF file.st = "malformed" THEN [ok |-> FALSE, data |-> <<>>]
    ELSE [ok |-> TRUE, data |-> JsonLoad(file.data)]

\* the four scripts with a metadata collector
Variants == {"sync_and_report", "download_creator_images", "new", "civitai_downloader"}

\* "if not items: break" is in fetch_all_image_metadata of three scripts;
\* get_all_creator_images of civitai_downloader has no such test
HasEmptyBreak(v) == v # "civitai_downloader"

\* listings in which a page without items may carry a nextPage: an empty
\* page in front of a listing, or after its first page
CollectListings ==
    Listings
        \cup {<< <<>> >> \o L : L \in Listings}
        \cup {<<Head(L), <<>> >> \o Tail(L) : L \in Listings}

\* the first response that yields no items or carries no nextPage
StopPage(pages) ==
    CHOOSE i \in 1..Len(pages) :
        /\ pages[i] = <<>> \/ i = Len(pages)
        /\ \A j \in 1..(i - 1) : pages[j] # <<>>

\* the encodings of sys.stdout
Encodings == {"utf-8", "gbk"}

\* print of a line that holds U+2713 or U+2717 returns; if not, it raises
\* UnicodeEncodeError
PrintsMarks(enc) == enc = "utf-8"

\* the except branch of the collector prints a line with U+2717 in three
\* scripts; the lines of civitai_downloader hold no such mark
MarkOnRequestFailure(v) == v # "civitai_downloader"

\* except RequestException: print, break -- the accumulated list is returned
OnRequestFailure(acc) == acc

NewImageIdsAll(cur, old) == cur

\* new_image_ids = current_image_ids - old_image_ids
NewImageIds(cur, old) == cur \ old

\* deleted_image_ids = old_image_ids - current_image_ids
DeletedImageIds(cur, old) == old \ cur

\* for img in images: f.write(f"{img['id']}\n") -- the lines written, each
\* with the number of times it is written
IdLines(images) ==
    [l \in {ToString(img.id) : img \in images} |->
        Cardinality({img \in images : ToString(img.id) = l})]

OpenA(previous, lines) ==
    [l \in DOMAIN previous \cup DOMAIN lines |->
        (IF l \in DOMAIN previous THEN previous[l] ELSE 0)
            + (IF l \in DOMAIN lines THEN lines[l] ELSE 0)]

\* open(path, 'w'): what the file held before is dropped
OpenW(previous, lines) == lines

ReportAlways(new, deleted) == TRUE

\* if new_images or deleted_images_data
ReportNeeded(new, deleted) == new # {} \/ deleted # {}

\* not image_id or not image_url
Incomplete(img) == img.id = 0 \/ img.url = ""

\* jpeg_filename in download_and_convert_image
WorkerFilename(img) == img.username \o "_" \o ToString(img.id) \o ".jpeg"

MainFilenameIdOnly(img) == ToString(img.id) \o ".jpeg"

\* the name main() appends to downloaded_filenames
MainFilename(img) == img.username \o "_" \o ToString(img.id) \o ".jpeg"

\* create_zip_archive writes a name only if os.path.exists
Zipped(names, files) == names \cap files

\* the states of a future that is done: the task has returned None ("ok"),
\* the message of a failed download, the message of a skipped record, or,
\* its file saved, the message of the print that raised ("unprinted")
Terminal == {"ok", "failed", "skipped", "unprinted"}

\* the results main() prints that hold U+2717: those of the except branch
Marked == {"failed", "unprinted"}

AnyDone(t) == \E i \in DOMAIN t : t[i] \in Terminal

\* leaving the ThreadPoolExecutor block: every future has completed
AllDone(t) == \A i \in DOMAIN t : t[i] \in Terminal

\* progress_lock can be acquired
LockFree(t) == \A i \in DOMAIN t : t[i] \notin {"locked", "relocked"}

\* the tasks a worker thread is running
InFlight(t) == {i \in DOMAIN t : t[i] \in {"running", "locked", "caught", "relocked"}}

\* the scripts whose main() downloads the whole listing: download_creator_images
\* and new
Downloaders == {"download_creator_images", "new"}

\* the except branch of the task increments the counter under the lock in
\* sync_and_report only; in the two downloaders it returns at once
CountsFailures(v) == v = "sync_and_report"

\* the records the list comprehension of executor.submit may take next, done
\* being submitted: new_images of sync_and_report is in the order of a set
\* iteration, the list of the downloaders in the order of the listing
NextToSubmit(v, images, list, done) ==
    IF v \in Downloaders
    THEN {list[k].id : k \in {j \in DOMAIN list :
                                  /\ list[j].id \notin done
                                  /\ \A m \in 1..(j - 1) : list[m].id \in done}}
    ELSE {img.id : img \in images} \ done

\* all_image_data[:image_count] when 0 < image_count < len(all_image_data)
FirstN(list, n) == IF n > 0 /\ n < Len(list) THEN SubSeq(list, 1, n) ELSE list

\* the values of --image-count that differ in effect on a list (new.py only)
ImageCounts(v, list) == IF v = "new" THEN 0..Len(list) ELSE {0}

\* file.endswith('.jpeg')
JpegFiles(files) == {f \in files : \E img \in Items : f = WorkerFilename(img)}

\* what the archive path holds after "with zipfile.ZipFile(...)" has raised:
\* the file as it was when ZipFile() could not open it, an unreadable file
\* when a write to the archive failed, or, when zf.write raised on one of
\* the offered files, the closed archive that lists the files written before
\* it and that file itself if its member had been started (so it can list
\* every offered file, the last one cut short)
FailedArchive(before, offered, time) ==
    {before, [st |-> "broken", time |-> time, names |-> {}]}
        \cup {[st |-> "ok", time |-> time, names |-> N] :
                  N \in {M \in SUBSET offered : offered # {}}}

\* ---- state ----
VARIABLES
    remote,                \* pages the listing endpoint serves
    threads,               \* args.threads
    variant,               \* the script that runs
    stdout,                \* encoding of sys.stdout
    runs,                  \* number of the current run
    output_dir,            \* args.output_dir exists
    manifest_file,         \* <username>_manifest.json
    reports_dir,           \* reports/
    temp_dir,              \* new_images_temp/, <username>/ in the downloaders
    zip_file,              \* civitai_<username>_new_<date>.zip
    pc,                    \* position of main()
    old_manifest,
    next_url,              \* page to request, 0 when None
    all_images,
    requests,              \* listing requests issued in this run
    fetch_failed,          \* page whose request failed, 0 if none
    current_images_map,
    new_images,            \* the records handed to the pool
    deleted_images_data,
    download_progress,
    tasks,                 \* id of a submitted record -> state of its future
                           \* or, while it runs, position of its task
    tmp,                   \* count as read by a task inside "+= 1"
    dl_fail,               \* ids whose download or conversion raises
    downloaded_filenames,
    zip_error,             \* what create_zip_archive caught: "no" exception, one
                           \* raised while the "archive" was written, or one
                           \* raised by the "removal" of the archived files
    saved,                 \* ids whose img.save has returned in this run
    disk0,                 \* the files as they were when the run started
    prev_run               \* the run before: how main() ended and the ids whose
                           \* download failed

vars == <<remote, threads, variant, stdout, runs, output_dir, manifest_file, reports_dir,
          temp_dir, zip_file,
          pc, old_manifest, next_url, all_images, requests, fetch_failed,
          current_images_map, new_images, deleted_images_data,
          download_progress, tasks, tmp, dl_fail, downloaded_filenames,
          zip_error, saved, disk0, prev_run>>

env == <<remote, threads, variant, stdout>>
disk == <<output_dir, manifest_file, reports_dir, temp_dir, zip_file>>
fetchv == <<next_url, all_images, requests, fetch_failed>>
diffv == <<current_images_map, new_images, deleted_images_data>>
poolv == <<download_progress, tasks, tmp, dl_fail, saved>>

NoReports ==
    [st |-> "absent", time |-> 0, n_new |-> 0, n_deleted |-> 0,
     new_ids |-> <<>>, deleted_ids |-> <<>>, new_lines |-> {}, deleted_lines |-> {}]
NoDir == [exists |-> FALSE, files |-> {}]
NoZip == [st |-> "absent", time |-> 0, names |-> {}]
NoRun == [pc |-> "", failed |-> {}]

Snapshot(m, r, z, t) == [manifest |-> m, reports |-> r, zip |-> z, temp |-> t]

\* the file names a run of main() can write into new_images_temp/
TempNames == {WorkerFilename(img) : img \in {x \in Items : ~Incomplete(x)}}

\* new_images_temp/ when a run starts: absent, or there with the files an
\* earlier run has left in it (a run that an exception ended after its
\* downloads, or that was stopped before its removal)
TempDirs == {NoDir} \cup {[exists |-> TRUE, files |-> F] : F \in SUBSET TempNames}

\* the files of the records 1..n
FilesUpTo(n) == {WorkerFilename(img) : img \in {x \in Items : x.id \in 1..n}}

\* the start of a run of sync_and_report.main with new_images_temp/ as one
\* of dirs; a manifest file, of whatever content, and the temporary
\* directory lie in an existing output directory
Start(dirs) ==
    /\ remote \in Listings
    /\ threads \in PoolSizes
    /\ variant = "sync_and_report"
    /\ stdout \in Encodings
    /\ runs = 1
    /\ manifest_file \in ManifestFiles
    /\ temp_dir \in dirs
    /\ output_dir \in {b \in BOOLEAN :
                          (manifest_file.st # "absent" \/ temp_dir.exists) => b}
    /\ reports_dir = NoReports
    /\ zip_file = NoZip
    /\ pc = "load"
    /\ old_manifest = <<>>
    /\ next_url = 1
    /\ all_images = <<>>
    /\ requests = 0
    /\ fetch_failed = 0
    /\ current_images_map = <<>>
    /\ new_images = {}
    /\ deleted_images_data = {}
    /\ download_progress = [count |-> 0, total |-> 0]
    /\ tasks = <<>>
    /\ tmp = <<>>
    /\ dl_fail = {}
    /\ downloaded_filenames = {}
    /\ zip_error = "no"
    /\ saved = {}
    /\ disk0 = Snapshot(manifest_file, NoReports, NoZip, temp_dir)
    /\ prev_run = NoRun

\* a run of sync_and_report.main from any output directory
Init == Start(TempDirs)

\* a run that finds no new_images_temp/
InitFresh == Start({NoDir})

\* ---- main(): 1. load_manifest ----
LoadManifest ==
    /\ pc = "load"
    /\ LoadResult(manifest_file).ok
    /\ old_manifest' = LoadResult(manifest_file).data
    /\ pc' = "fetch"
    /\ UNCHANGED <<env, runs, disk, fetchv, diffv, poolv, downloaded_filenames,
                   zip_error, disk0, prev_run>>

\* json.load raises; nothing in main() catches it
LoadManifestRaises ==
    /\ pc = "load"
    /\ ~LoadResult(manifest_file).ok
    /\ pc' = "load_raised"
    /\ UNCHANGED <<env, runs, disk, old_manifest, fetchv, diffv, poolv,
                   downloaded_filenames, zip_error, disk0, prev_run>>

\* ---- fetch_all_image_metadata: one pass of the while loop ----
FetchPage ==
    /\ pc = "fetch"
    /\ next_url # 0
    /\ remote[next_url] # <<>>
    /\ requests' = requests + 1
    /\ all_images' = all_images \o remote[next_url]
    /\ next_url' = IF next_url < Len(remote) THEN next_url + 1 ELSE 0
    /\ pc' = IF next_url' = 0 THEN "fetched" ELSE "fetch"
    /\ UNCHANGED <<env, runs, disk, old_manifest, fetch_failed, diffv, poolv,
                   downloaded_filenames, zip_error, disk0, prev_run>>

\* if not items: break
FetchEmptyPage ==
    /\ pc = "fetch"
    /\ HasEmptyBreak(variant)
    /\ next_url # 0
    /\ remote[next_url] = <<>>
    /\ requests' = requests + 1
    /\ pc' = "fetched"
    /\ UNCHANGED <<env, runs, disk, old_manifest, next_url, all_images,
                   fetch_failed, diffv, poolv, downloaded_filenames, zip_error,
                   disk0, prev_run>>

\* get_all_creator_images: a response without items extends the list by
\* nothing and the loop follows its nextPage
FetchEmptyContinues ==
    /\ pc = "fetch"
    /\ ~HasEmptyBreak(variant)
    /\ next_url # 0
    /\ remote[next_url] = <<>>
    /\ requests' = requests + 1
    /\ all_images' = all_images \o remote[next_url]
    /\ next_url' = IF next_url < Len(remote) THEN next_url + 1 ELSE 0
    /\ pc' = IF next_url' = 0 THEN "fetched" ELSE "fetch"
    /\ UNCHANGED <<env, runs, disk, old_manifest, fetch_failed, diffv, poolv,
                   downloaded_filenames, zip_error, disk0, prev_run>>

\* the request raises a RequestException (transport or HTTP error): the
\* except branch prints and breaks; when its print raises, the exception
\* leaves the collector and main()
FetchFails ==
    /\ pc = "fetch"
    /\ next_url # 0
    /\ requests' = requests + 1
    /\ fetch_failed' = next_url
    /\ all_images' = OnRequestFailure(all_images)
    /\ pc' = IF MarkOnRequestFailure(variant) /\ ~PrintsMarks(stdout)
             THEN "fetch_raised" ELSE "fetched"
    /\ UNCHANGED <<env, runs, disk, old_manifest, next_url, diffv, poolv,
                   downloaded_filenames, zip_error, disk0, prev_run>>

\* ---- main(): 2./3. build the map and compare ----
Diff ==
    /\ pc = "fetched"
    /\ variant = "sync_and_report"
    /\ LET cur == ImagesMap(all_images)
           new_ids == NewImageIds(DOMAIN cur, DOMAIN old_manifest)
           deleted_ids == DeletedImageIds(DOMAIN cur, DOMAIN old_manifest)
       IN  /\ current_images_map' = cur
           /\ new_images' = {cur[k] : k \in new_ids}
           /\ deleted_images_data' = {old_manifest[k] : k \in deleted_ids}
    /\ pc' = "report"
    /\ UNCHANGED <<env, runs, disk, old_manifest, fetchv, poolv,
                   downloaded_filenames, zip_error, disk0, prev_run>>

\* ---- main(): 4. generate_reports ----
\* os.makedirs(reports_dir) creates the output directory with it
GenerateReports ==
    /\ pc = "report"
    /\ ReportNeeded(new_images, deleted_images_data)
    /\ output_dir' = TRUE
    /\ reports_dir' =
           [st |-> "written", time |-> runs,
            n_new |-> Cardinality(new_images),
            n_deleted |-> Cardinality(deleted_images_data),
            new_lines |-> {<<ToString(img.id), img.url>> : img \in new_images},
            deleted_lines |->
                {<<ToString(img.id), img.username>> : img \in deleted_images_data},
            new_ids |-> OpenW(reports_dir.new_ids, IdLines(new_images)),
            deleted_ids |->
                OpenW(reports_dir.deleted_ids, IdLines(deleted_images_data))]
    /\ pc' = "download"
    /\ UNCHANGED <<env, runs, manifest_file, temp_dir, zip_file, old_manifest,
                   fetchv, diffv, poolv, downloaded_filenames, zip_error, disk0, prev_run>>

SkipReports ==
    /\ pc = "report"
    /\ ~ReportNeeded(new_images, deleted_images_data)
    /\ pc' = "download"
    /\ UNCHANGED <<env, runs, disk, old_manifest, fetchv, diffv, poolv,
                   downloaded_filenames, zip_error, disk0, prev_run>>

\* ---- main(): 5. download the new images ----
\* makedirs, reset of download_progress and the executor block is entered;
\* no task is submitted yet.  dl_fail is what the downloads of this run will
\* meet: an incomplete record makes no request
SubmitDownloads ==
    /\ pc = "download"
    /\ new_images # {}
    /\ output_dir' = TRUE
    /\ temp_dir' = [exists |-> TRUE, files |-> temp_dir.files]
    /\ download_progress' = [count |-> 0, total |-> Cardinality(new_images)]
    /\ tasks' = <<>>
    /\ tmp' = [i \in {img.id : img \in new_images} |-> 0]
    /\ dl_fail' \in SUBSET {img.id : img \in {x \in new_images : ~Incomplete(x)}}
    /\ saved' = {}
    /\ pc' = "pool"
    /\ UNCHANGED <<env, runs, manifest_file, reports_dir, zip_file, old_manifest,
                   fetchv, diffv, downloaded_filenames, zip_error,
                   disk0, prev_run>>

NoDownloads ==
    /\ pc = "download"
    /\ new_images = {}
    /\ pc' = "save"
    /\ UNCHANGED <<env, runs, disk, old_manifest, fetchv, diffv, poolv,
                   downloaded_filenames, zip_error, disk0, prev_run>>

ImageOf(i) == CHOOSE img \in new_images : img.id = i

\* the list comprehension has submitted every record
AllSubmitted == DOMAIN tasks = {img.id : img \in new_images}

\* executor.submit of one record: the list comprehension hands the records
\* to the pool one by one, and the workers run the tasks they have while the
\* others are not submitted yet
Submit(i) ==
    /\ pc = "pool"
    /\ i \in NextToSubmit(variant, new_images, all_images, DOMAIN tasks)
    /\ tasks' = DictPut(tasks, i, "pending")
    /\ UNCHANGED <<env, runs, disk, pc, old_manifest, fetchv, diffv,
                   download_progress, tmp, dl_fail, saved,
                   downloaded_filenames, zip_error, disk0, prev_run>>

\* a free worker takes a task; an incomplete record returns at once
TaskStart(i) ==
    /\ pc = "pool"
    /\ i \in DOMAIN tasks
    /\ tasks[i] = "pending"
    /\ Cardinality(InFlight(tasks)) < threads
    /\ tasks' = [tasks EXCEPT ![i] =
                     IF Incomplete(ImageOf(i)) THEN "skipped" ELSE "running"]
    /\ UNCHANGED <<env, runs, disk, pc, old_manifest, fetchv, diffv,
                   download_progress, tmp, dl_fail, saved, downloaded_filenames,
                   zip_error, disk0, prev_run>>

\* the download and the conversion have succeeded: img.save writes the file,
\* over a file of that name left by an earlier run.  A task of dl_fail raises
\* before or in img.save and writes no file (Pillow removes the file it
\* created when the encoder raises)
TaskSave(i) ==
    /\ pc = "pool"
    /\ i \in DOMAIN tasks
    /\ tasks[i] = "running"
    /\ i \notin dl_fail
    /\ i \notin saved
    /\ saved' = saved \cup {i}
    /\ temp_dir' = [temp_dir EXCEPT !.files = @ \cup {WorkerFilename(ImageOf(i))}]
    /\ UNCHANGED <<env, runs, output_dir, manifest_file, reports_dir, zip_file, pc,
                   old_manifest, fetchv, diffv, download_progress, tasks, tmp,
                   dl_fail, downloaded_filenames, zip_error, disk0,
                   prev_run>>

\* the task, its file saved or its exception caught, acquires progress_lock
\* and reads the counter
TaskLock(i) ==
    /\ pc = "pool"
    /\ i \in DOMAIN tasks
    /\ tasks[i] = "running"
    /\ IF i \in dl_fail THEN CountsFailures(variant) ELSE i \in saved
    /\ LockFree(tasks)
    /\ tmp' = [tmp EXCEPT ![i] = download_progress.count]
    /\ tasks' = [tasks EXCEPT ![i] = "locked"]
    /\ UNCHANGED <<env, runs, disk, pc, old_manifest, fetchv, diffv,
                   download_progress, dl_fail, saved,
                   downloaded_filenames, zip_error, disk0, prev_run>>

\* the counter is written back and the value the task had read is gone with
\* it.  In the except branch the lock is released and the message is
\* returned.  In the try block the progress line with U+2713 is printed
\* under the lock: the task returns None, or print raises, the lock is
\* released and "except Exception" catches the error of print -- it returns
\* the message in the downloaders, and goes for the lock a second time in
\* sync_and_report
TaskCount(i) ==
    /\ pc = "pool"
    /\ i \in DOMAIN tasks
    /\ tasks[i] = "locked"
    /\ download_progress' = [download_progress EXCEPT !.count = tmp[i] + 1]
    /\ tmp' = [tmp EXCEPT ![i] = 0]
    /\ tasks' = [tasks EXCEPT ![i] =
                     IF i \in dl_fail THEN "failed"
                     ELSE IF PrintsMarks(stdout) THEN "ok"
                     ELSE IF CountsFailures(variant) THEN "caught"
                     ELSE "unprinted"]
    /\ UNCHANGED <<env, runs, disk, pc, old_manifest, fetchv, diffv,
                   dl_fail, saved, downloaded_filenames, zip_error,
                   disk0, prev_run>>

\* the except branch that caught the error of print acquires progress_lock
\* and reads the counter
TaskRelock(i) ==
    /\ pc = "pool"
    /\ i \in DOMAIN tasks
    /\ tasks[i] = "caught"
    /\ LockFree(tasks)
    /\ tmp' = [tmp EXCEPT ![i] = download_progress.count]
    /\ tasks' = [tasks EXCEPT ![i] = "relocked"]
    /\ UNCHANGED <<env, runs, disk, pc, old_manifest, fetchv, diffv,
                   download_progress, dl_fail, saved,
                   downloaded_filenames, zip_error, disk0, prev_run>>

\* it counts the record a second time, releases the lock and returns the
\* failure message although the file is saved
TaskRecount(i) ==
    /\ pc = "pool"
    /\ i \in DOMAIN tasks
    /\ tasks[i] = "relocked"
    /\ download_progress' = [download_progress EXCEPT !.count = tmp[i] + 1]
    /\ tmp' = [tmp EXCEPT ![i] = 0]
    /\ tasks' = [tasks EXCEPT ![i] = "unprinted"]
    /\ UNCHANGED <<env, runs, disk, pc, old_manifest, fetchv, diffv,
                   dl_fail, saved, downloaded_filenames, zip_error,
                   disk0, prev_run>>

\* main() can print every result the tasks return
ResultsPrinted == PrintsMarks(stdout) \/ \A i \in DOMAIN tasks : tasks[i] \notin Marked

\* the executor block is left and downloaded_filenames is built
PoolExit ==
    /\ pc = "pool"
    /\ variant = "sync_and_report"
    /\ AllSubmitted
    /\ AllDone(tasks)
    /\ ResultsPrinted
    /\ downloaded_filenames' = {MainFilename(img) : img \in new_images}
    /\ pc' = "zip"
    /\ UNCHANGED <<env, runs, disk, old_manifest, fetchv, diffv, poolv,
                   zip_error, disk0, prev_run>>

\* print(result) raises in the as_completed loop on a message with U+2717:
\* the executor block waits for every task and the exception leaves main()
PoolRaises ==
    /\ pc = "pool"
    /\ AllSubmitted
    /\ AllDone(tasks)
    /\ ~ResultsPrinted
    /\ pc' = "pool_raised"
    /\ UNCHANGED <<env, runs, disk, old_manifest, fetchv, diffv, poolv,
                   downloaded_filenames, zip_error, disk0, prev_run>>

\* create_zip_archive without an exception
CreateZip ==
    /\ pc = "zip"
    /\ variant = "sync_and_report"
    /\ zip_file' = [st |-> "ok", time |-> runs,
                    names |-> Zipped(downloaded_filenames, temp_dir.files)]
    /\ pc' = "cleanup"
    /\ UNCHANGED <<env, runs, output_dir, manifest_file, reports_dir, temp_dir,
                   old_manifest, fetchv, diffv, poolv, downloaded_filenames,
                   zip_error, disk0, prev_run>>

\* create_zip_archive catches an exception of zipfile, prints it and
\* returns; when that print raises, the exception leaves main()
CreateZipFails ==
    /\ pc = "zip"
    /\ variant = "sync_and_report"
    /\ zip_file' \in FailedArchive(zip_file,
                                   Zipped(downloaded_filenames, temp_dir.files), runs)
    /\ zip_error' = "archive"
    /\ pc' = IF PrintsMarks(stdout) THEN "cleanup" ELSE "zip_raised"
    /\ UNCHANGED <<env, runs, output_dir, manifest_file, reports_dir, temp_dir,
                   old_manifest, fetchv, diffv, poolv, downloaded_filenames,
                   disk0, prev_run>>

\* os.remove of every file of the temporary directory, then os.rmdir
Cleanup ==
    /\ pc = "cleanup"
    /\ temp_dir' = NoDir
    /\ pc' = "save"
    /\ UNCHANGED <<env, runs, output_dir, manifest_file, reports_dir, zip_file,
                   old_manifest, fetchv, diffv, poolv, downloaded_filenames,
                   zip_error, disk0, prev_run>>

\* os.remove raises on a file, the files after it and the directory are
\* left, or os.rmdir raises; nothing in main() catches it
CleanupRaises ==
    /\ pc = "cleanup"
    /\ \E left \in SUBSET temp_dir.files :
           temp_dir' = [exists |-> TRUE, files |-> left]
    /\ pc' = "cleanup_raised"
    /\ UNCHANGED <<env, runs, output_dir, manifest_file, reports_dir, zip_file,
                   old_manifest, fetchv, diffv, poolv, downloaded_filenames,
                   zip_error, disk0, prev_run>>

\* ---- main(): 6. save_manifest ----
ManifestMerged(cur, old) ==
    [k \in DOMAIN cur \cup DOMAIN old |-> IF k \in DOMAIN cur THEN cur[k] ELSE old[k]]

ManifestOfDownloaded(cur, old) ==
    [k \in {x \in DOMAIN cur :
                cur[x].id \notin {i \in DOMAIN tasks : tasks[i] = "failed"}} |-> cur[k]]

\* save_manifest(manifest_path, current_images_map)
ManifestToSave(cur, old) == cur

SaveManifest ==
    /\ pc = "save"
    /\ output_dir
    /\ manifest_file' =
           [st |-> "ok",
            data |-> JsonDump(ManifestToSave(current_images_map, old_manifest))]
    /\ pc' = "done"
    /\ UNCHANGED <<env, runs, output_dir, reports_dir, temp_dir, zip_file,
                   old_manifest, fetchv, diffv, poolv, downloaded_filenames,
                   zip_error, disk0, prev_run>>

\* open(manifest_path, 'w') raises FileNotFoundError: nothing has created the
\* output directory; nothing in main() catches it
SaveManifestRaises ==
    /\ pc = "save"
    /\ ~output_dir
    /\ pc' = "save_raised"
    /\ UNCHANGED <<env, runs, disk, old_manifest, fetchv, diffv, poolv,
                   downloaded_filenames, zip_error, disk0, prev_run>>

\* main() has ended by an exception
Raised ==
    pc \in {"load_raised", "fetch_raised", "pool_raised", "zip_raised",
            "cleanup_raised", "save_raised"}

\* the script is started again on the same output directory
NewRun ==
    /\ pc = "done" \/ Raised
    /\ runs < MaxRuns
    /\ runs' = runs + 1
    /\ pc' = "load"
    /\ old_manifest' = <<>>
    /\ next_url' = 1
    /\ all_images' = <<>>
    /\ requests' = 0
    /\ fetch_failed' = 0
    /\ current_images_map' = <<>>
    /\ new_images' = {}
    /\ deleted_images_data' = {}
    /\ download_progress' = [count |-> 0, total |-> 0]
    /\ tasks' = <<>>
    /\ tmp' = <<>>
    /\ dl_fail' = {}
    /\ downloaded_filenames' = {}
    /\ zip_error' = "no"
    /\ saved' = {}
    /\ disk0' = Snapshot(manifest_file, reports_dir, zip_file, temp_dir)
    /\ prev_run' = [pc |-> pc, failed |-> {i \in DOMAIN tasks : tasks[i] = "failed"}]
    /\ UNCHANGED <<env, disk>>

\* main() and the workers of its pool
Next ==
    \/ LoadManifest
    \/ LoadManifestRaises
    \/ FetchPage
    \/ FetchEmptyPage
    \/ FetchFails
    \/ Diff
    \/ GenerateReports
    \/ SkipReports
    \/ SubmitDownloads
    \/ NoDownloads
    \/ \E i \in Ids : Submit(i)
    \/ \E i \in Ids : TaskStart(i)
    \/ \E i \in Ids : TaskSave(i)
    \/ \E i \in Ids : TaskLock(i)
    \/ \E i \in Ids : TaskCount(i)
    \/ \E i \in Ids : TaskRelock(i)
    \/ \E i \in Ids : TaskRecount(i)
    \/ PoolExit
    \/ PoolRaises
    \/ CreateZip
    \/ CreateZipFails
    \/ Cleanup
    \/ CleanupRaises
    \/ SaveManifest
    \/ SaveManifestRaises

\* one run of the script, from any manifest file, that finds no temporary
\* directory
Spec == InitFresh /\ [][Next]_vars

\* a first run (no usable manifest file: every fetched record is added) from
\* any output directory: new_images_temp/ is absent or already there with
\* files of the records 1..MaxStale
InitFirst ==
    /\ Init
    /\ temp_dir.files \subseteq FilesUpTo(MaxStale)
    /\ manifest_file \in {NoFile, Malformed}
SpecFirst == InitFirst /\ [][Next]_vars

\* repeated runs with one worker against an unchanged remote listing of at
\* most MaxRunItems records, the first one from any manifest file of at most
\* MaxRunItems records and without temporary directory; the records are
\* taken from those of the identifiers 0..MaxRunItems + 1 (0 is the one
\* identifier the code treats differently)
InitRuns ==
    /\ InitFresh
    /\ threads = 1
    /\ Len(Flatten(remote)) <= MaxRunItems
    /\ Cardinality(manifest_file.data) <= MaxRunItems
    /\ \A x \in Range(Flatten(remote)) : x.id <= MaxRunItems + 1
    /\ \A p \in manifest_file.data : p[2].id <= MaxRunItems + 1
NextRuns == Next \/ NewRun
SpecRuns == InitRuns /\ [][NextRuns]_vars

\* the metadata collector of each of the four scripts, called once
InitCollect ==
    /\ remote \in CollectListings
    /\ threads = 1
    /\ variant \in Variants
    /\ stdout \in Encodings
    /\ runs = 1
    /\ output_dir = TRUE
    /\ manifest_file = NoFile
    /\ reports_dir = NoReports
    /\ temp_dir = NoDir
    /\ zip_file = NoZip
    /\ pc = "fetch"
    /\ old_manifest = <<>>
    /\ next_url = 1
    /\ all_images = <<>>
    /\ requests = 0
    /\ fetch_failed = 0
    /\ current_images_map = <<>>
    /\ new_images = {}
    /\ deleted_images_data = {}
    /\ download_progress = [count |-> 0, total |-> 0]
    /\ tasks = <<>>
    /\ tmp = <<>>
    /\ dl_fail = {}
    /\ downloaded_filenames = {}
    /\ zip_error = "no"
    /\ saved = {}
    /\ disk0 = Snapshot(NoFile, NoReports, NoZip, NoDir)
    /\ prev_run = NoRun

NextCollect ==
    \/ FetchPage
    \/ FetchEmptyPage
    \/ FetchEmptyContinues
    \/ FetchFails

SpecCollect == InitCollect /\ [][NextCollect]_vars

\* ---- main() of download_creator_images.py and of new.py ----

\* os.makedirs(temp_image_dir, exist_ok=True), the output directory with it
MakeTempDir ==
    /\ pc = "mkdir"
    /\ output_dir' = TRUE
    /\ temp_dir' = [exists |-> TRUE, files |-> temp_dir.files]
    /\ pc' = "fetch"
    /\ UNCHANGED <<env, runs, manifest_file, reports_dir, zip_file, old_manifest,
                   fetchv, diffv, poolv, downloaded_filenames, zip_error, disk0,
                   prev_run>>

\* if total_images == 0: return
NothingFound ==
    /\ pc = "fetched"
    /\ variant \in Downloaders
    /\ all_images = <<>>
    /\ pc' = "done"
    /\ UNCHANGED <<env, runs, disk, old_manifest, fetchv, diffv, poolv,
                   downloaded_filenames, zip_error, disk0, prev_run>>

\* the list is cut to --image-count (new.py), total_images is set and the
\* executor block is entered; download_count is not reset
SubmitAll ==
    /\ pc = "fetched"
    /\ variant \in Downloaders
    /\ all_images # <<>>
    /\ \E n \in ImageCounts(variant, all_images) :
           /\ all_images' = FirstN(all_images, n)
           /\ new_images' = Range(FirstN(all_images, n))
           /\ download_progress' =
                  [download_progress EXCEPT !.total = Len(FirstN(all_images, n))]
           /\ tasks' = <<>>
           /\ tmp' = [i \in {img.id : img \in Range(FirstN(all_images, n))} |-> 0]
           /\ dl_fail' \in SUBSET {img.id : img \in {x \in Range(FirstN(all_images, n)) :
                                                    ~Incomplete(x)}}
    /\ saved' = {}
    /\ pc' = "pool"
    /\ UNCHANGED <<env, runs, disk, old_manifest, next_url, requests, fetch_failed,
                   current_images_map, deleted_images_data,
                   downloaded_filenames, zip_error, disk0, prev_run>>

\* except Exception: the message is returned, the counter is left alone
TaskFails(i) ==
    /\ pc = "pool"
    /\ i \in DOMAIN tasks
    /\ tasks[i] = "running"
    /\ i \in dl_fail
    /\ ~CountsFailures(variant)
    /\ tasks' = [tasks EXCEPT ![i] = "failed"]
    /\ UNCHANGED <<env, runs, disk, pc, old_manifest, fetchv, diffv,
                   download_progress, tmp, dl_fail, saved,
                   downloaded_filenames, zip_error, disk0, prev_run>>

\* the executor block is left
PoolExitAll ==
    /\ pc = "pool"
    /\ variant \in Downloaders
    /\ AllSubmitted
    /\ AllDone(tasks)
    /\ ResultsPrinted
    /\ pc' = "zip"
    /\ UNCHANGED <<env, runs, disk, old_manifest, fetchv, diffv, poolv,
                   downloaded_filenames, zip_error, disk0, prev_run>>

\* --no-zip: the files stay in the directory
KeepFiles ==
    /\ pc = "zip"
    /\ variant \in Downloaders
    /\ pc' = "done"
    /\ UNCHANGED <<env, runs, disk, old_manifest, fetchv, diffv, poolv,
                   downloaded_filenames, zip_error, disk0, prev_run>>

\* create_zip_archive of the downloaders without an exception: every .jpeg
\* of the directory is archived, then removed, then the directory is removed
CreateZipAndClean ==
    /\ pc = "zip"
    /\ variant \in Downloaders
    /\ zip_file' = [st |-> "ok", time |-> runs, names |-> JpegFiles(temp_dir.files)]
    /\ temp_dir' = NoDir
    /\ pc' = "done"
    /\ UNCHANGED <<env, runs, output_dir, manifest_file, reports_dir, old_manifest,
                   fetchv, diffv, poolv, downloaded_filenames, zip_error, disk0,
                   prev_run>>

\* writing the archive raises: the exception is caught at the end of the try
\* block, so the removal of the files is not reached; when the print of the
\* except branch raises, the exception leaves main()
CreateZipAndCleanFails ==
    /\ pc = "zip"
    /\ variant \in Downloaders
    /\ zip_file' \in FailedArchive(zip_file, JpegFiles(temp_dir.files), runs)
    /\ zip_error' = "archive"
    /\ pc' = IF PrintsMarks(stdout) THEN "done" ELSE "zip_raised"
    /\ UNCHANGED <<env, runs, output_dir, manifest_file, reports_dir, temp_dir,
                   old_manifest, fetchv, diffv, poolv, downloaded_filenames,
                   disk0, prev_run>>

\* the archive is written, then os.remove raises on a file, the files after
\* it and the directory are left, or os.rmdir raises; the same except
\* branch catches it
CleanRaises ==
    /\ pc = "zip"
    /\ variant \in Downloaders
    /\ zip_file' = [st |-> "ok", time |-> runs, names |-> JpegFiles(temp_dir.files)]
    /\ \E left \in SUBSET temp_dir.files :
           temp_dir' = [exists |-> TRUE, files |-> left]
    /\ zip_error' = "removal"
    /\ pc' = IF PrintsMarks(stdout) THEN "done" ELSE "zip_raised"
    /\ UNCHANGED <<env, runs, output_dir, manifest_file, reports_dir, old_manifest,
                   fetchv, diffv, poolv, downloaded_filenames, disk0, prev_run>>

InitDownloader ==
    /\ remote \in Listings
    /\ threads \in PoolSizes
    /\ variant \in Downloaders
    /\ stdout \in Encodings
    /\ runs = 1
    /\ output_dir \in BOOLEAN
    /\ manifest_file = NoFile
    /\ reports_dir = NoReports
    /\ temp_dir = NoDir
    /\ zip_file = NoZip
    /\ pc = "mkdir"
    /\ old_manifest = <<>>
    /\ next_url = 1
    /\ all_images = <<>>
    /\ requests = 0
    /\ fetch_failed = 0
    /\ current_images_map = <<>>
    /\ new_images = {}
    /\ deleted_images_data = {}
    /\ download_progress = [count |-> 0, total |-> 0]
    /\ tasks = <<>>
    /\ tmp = <<>>
    /\ dl_fail = {}
    /\ downloaded_filenames = {}
    /\ zip_error = "no"
    /\ saved = {}
    /\ disk0 = Snapshot(NoFile, NoReports, NoZip, NoDir)
    /\ prev_run = NoRun

\* one run of each of the three scripts that archive what they download,
\* sync_and_report on a first run
InitScripts == (InitFresh /\ manifest_file \in {NoFile, Malformed}) \/ InitDownloader

NextScripts ==
    \/ Next
    \/ MakeTempDir
    \/ NothingFound
    \/ SubmitAll
    \/ \E i \in Ids : TaskFails(i)
    \/ PoolExitAll
    \/ KeepFiles
    \/ CreateZipAndClean
    \/ CreateZipAndCleanFails
    \/ CleanRaises

SpecScripts == InitScripts /\ [][NextScripts]_vars

\* ---- save_manifest followed by load_manifest on the same path ----

\* the identifier a key stands for
KeyId(k) == IF k.t = "int" THEN k.v ELSE CHOOSE i \in Ids : ToString(i) = k.v

\* the manifests with unique identifiers: each record under its identifier,
\* which is the key as a str (as main() builds it) or as an int
Manifests ==
    {[k \in K |-> [id |-> KeyId(k), username |-> "creator", url |-> "https://image"]] :
        K \in {L \in SUBSET ({Str(i) : i \in Ids} \cup {PyInt(i) : i \in Ids}) :
                   \A a, b \in L : KeyId(a) = KeyId(b) => a = b}}

\* load_manifest(manifest_path) on the file save_manifest has written
LoadSaved ==
    /\ pc = "done"
    /\ LoadResult(manifest_file).ok
    /\ old_manifest' = LoadResult(manifest_file).data
    /\ pc' = "loaded"
    /\ UNCHANGED <<env, runs, disk, fetchv, diffv, poolv, downloaded_filenames,
                   zip_error, disk0, prev_run>>

\* save_manifest is called with any manifest, over any file
InitJson ==
    /\ remote = << <<>> >>
    /\ threads = 1
    /\ variant = "sync_and_report"
    /\ stdout \in Encodings
    /\ runs = 1
    /\ manifest_file \in ManifestFiles
    /\ output_dir \in {b \in BOOLEAN : manifest_file.st # "absent" => b}
    /\ reports_dir = NoReports
    /\ temp_dir = NoDir
    /\ zip_file = NoZip
    /\ pc = "save"
    /\ old_manifest = <<>>
    /\ next_url = 0
    /\ all_images = <<>>
    /\ requests = 0
    /\ fetch_failed = 0
    /\ current_images_map \in Manifests
    /\ new_images = {}
    /\ deleted_images_data = {}
    /\ download_progress = [count |-> 0, total |-> 0]
    /\ tasks = <<>>
    /\ tmp = <<>>
    /\ dl_fail = {}
    /\ downloaded_filenames = {}
    /\ zip_error = "no"
    /\ saved = {}
    /\ disk0 = Snapshot(manifest_file, NoReports, NoZip, NoDir)
    /\ prev_run = NoRun

NextJson ==
    \/ SaveManifest
    \/ SaveManifestRaises
    \/ LoadSaved

SpecJson == InitJson /\ [][NextJson]_vars

\* ---- derived values the properties are stated with ----

\* identifiers of the fetched collection
CurIds == {Str(x.id) : x \in Range(all_images)}

\* identifiers of the manifest file the run started from
ManIds == {PyStr(p[1]) : p \in disk0.manifest.data}

\* the record the manifest file stored under key k
StoredCopy(k) == (CHOOSE p \in disk0.manifest.data : p[1] = k.v)[2]

SavedIds == {PyStr(p[1]) : p \in manifest_file.data}

AfterDiff ==
    pc \in {"report", "download", "pool", "pool_raised", "zip", "zip_raised",
            "cleanup", "cleanup_raised", "save", "save_raised", "done"}

\* the report step of main() (lines 189-193) is over
AfterReport ==
    pc \in {"download", "pool", "pool_raised", "zip", "zip_raised", "cleanup",
            "cleanup_raised", "save", "save_raised", "done"}

\* the executor block (lines 205-210) has been left without an exception
AfterPool ==
    tasks # <<>> /\ pc \in {"zip", "zip_raised", "cleanup", "cleanup_raised", "save", "done"}

\* the added records, from the inputs of the run alone
Added == {x \in Range(all_images) : Str(x.id) \notin ManIds}

\* C1: after the comparison, added is exactly the fetched records whose
\* identifier is not a key of the manifest, removed is exactly the manifest's
\* stored records whose key is not a fetched identifier, and no identifier
\* is in both.
C1_DiffIsSetDifference ==
    AfterDiff =>
        LET only_current == CurIds \ ManIds
            only_manifest == ManIds \ CurIds
        IN  /\ new_images = {x \in Range(all_images) : Str(x.id) \in only_current}
            /\ deleted_images_data = {StoredCopy(k) : k \in only_manifest}
            /\ {Str(x.id) : x \in new_images}
                   \cap {Str(x.id) : x \in deleted_images_data} = {}

C1_Witness ==
    /\ pc = "report"
    /\ new_images # {}
    /\ deleted_images_data # {}
    /\ CurIds \cap ManIds # {}

\* C2: a run that reaches its end leaves a manifest file whose keys are
\* exactly the identifiers fetched in that run.
C2_SavedManifestIsCurrent ==
    pc = "done" => manifest_file.st = "ok" /\ SavedIds = CurIds

C2_Witness ==
    /\ pc = "done"
    /\ ManIds \ CurIds # {}
    /\ CurIds \ ManIds # {}
    /\ Cardinality(ManIds \cap CurIds) >= 2
    /\ SavedIds = CurIds

\* C3: a missing manifest file loads as the empty manifest without an error,
\* and with an empty prior manifest nothing is removed and everything
\* fetched is added.
C3_EmptyManifest ==
    /\ (disk0.manifest.st = "absent" /\ pc # "load") =>
            (pc # "load_raised" /\ old_manifest = <<>>)
    /\ (AfterDiff /\ ManIds = {}) =>
            (deleted_images_data = {} /\ new_images = Range(all_images))

C3_Witness ==
    /\ pc = "download"
    /\ disk0.manifest.st = "absent"
    /\ Cardinality(new_images) >= 2

\* C4: when the fetched identifiers equal the manifest's, added and removed
\* are empty, no task is submitted, no archive and no report is written.
C4_NoChangeNoEffect ==
    (AfterDiff /\ CurIds = ManIds) =>
        /\ new_images = {} /\ deleted_images_data = {}
        /\ pc \notin {"pool", "pool_raised", "zip", "zip_raised", "cleanup"}
        /\ tasks = <<>>
        /\ temp_dir = NoDir
        /\ zip_file = disk0.zip
        /\ reports_dir = disk0.reports

C4_Witness ==
    /\ pc = "done"
    /\ CurIds = ManIds
    /\ Cardinality(CurIds) >= 2

\* C5 as the specification states it: when the request of page k fails, the
\* collector returns the records of pages 1..k-1 in order instead of
\* raising, the run goes on to the comparison, and every manifest identifier
\* missing from them is reported as removed and absent from the saved
\* manifest (save_manifest finds no output directory only when the manifest
\* is empty and nothing was fetched).
C5_TruncatedListing ==
    fetch_failed > 0 =>
        LET got == Flatten(SubSeq(remote, 1, fetch_failed - 1))
            lost == ManIds \ {Str(x.id) : x \in Range(got)}
        IN  /\ all_images = got
            /\ pc = "fetched" \/ AfterDiff
            /\ pc = "save_raised" => (lost = {} /\ got = <<>> /\ ~output_dir)
            /\ AfterDiff => \A k \in lost : StoredCopy(k) \in deleted_images_data
            /\ AfterReport =>
                   \A k \in lost :
                       ToString(StoredCopy(k).id) \in DOMAIN reports_dir.deleted_ids
            /\ pc = "done" => SavedIds \cap lost = {}

\* what the task of record i must end as, whatever the other tasks do
Outcome(i) ==
    IF Incomplete(ImageOf(i)) THEN "skipped"
    ELSE IF i \in dl_fail THEN "failed"
    ELSE IF PrintsMarks(stdout) THEN "ok" ELSE "unprinted"

\* C6: no archive is written while the pool runs, and when the pool is left,
\* by its end or by an exception of main(), every added record has been
\* submitted and every task has run to its own outcome: a failed task has
\* stopped no other task.
C6_PoolWaitsForEveryTask ==
    /\ pc \in {"pool", "pool_raised"} => zip_file = disk0.zip
    /\ (AfterPool \/ pc = "pool_raised") =>
           /\ DOMAIN tasks = {x.id : x \in Added}
           /\ \A i \in DOMAIN tasks : tasks[i] = Outcome(i)

C6_Witness ==
    /\ pc = "zip"
    /\ threads >= 2
    /\ \E i, j \in DOMAIN tasks : tasks[i] = "failed" /\ tasks[j] = "ok"

\* C7 as the specification states it: the archive that create_zip_archive
\* writes without an error holds exactly the files of the added records whose
\* download succeeded; a failed download raises nothing in main(), which goes
\* on to the archive, and the run that reaches its end has saved the manifest.
C7_ArchiveOfSucceeded ==
    /\ (zip_file.st = "ok" /\ zip_file.time = runs /\ zip_error = "no") =>
           zip_file.names =
               {WorkerFilename(ImageOf(i)) : i \in {j \in DOMAIN tasks : tasks[j] = "ok"}}
    /\ dl_fail # {} => pc \in {"pool", "zip", "cleanup", "cleanup_raised", "save", "done"}
    /\ (pc = "done" /\ dl_fail # {}) =>
           manifest_file = [st |-> "ok", data |-> JsonDump(current_images_map)]

\* the archive of this run's downloaded files has been written in full
ArchiveWritten ==
    /\ pc \in {"zip_raised", "cleanup", "cleanup_raised", "save", "save_raised", "done"}
    /\ zip_file.st = "ok"
    /\ zip_file.time = runs
    /\ zip_error # "archive"

\* C8 as the specification states it: once the downloads have ended, and as
\* long as the archive has not been created successfully, the downloaded
\* files and their directory are still there; so they are when archive
\* creation has failed.
C8_FilesKeptWhenZipFails ==
    (tasks # <<>> /\ AllDone(tasks) /\ ~ArchiveWritten) =>
        /\ temp_dir.exists
        /\ \A i \in DOMAIN tasks :
               tasks[i] \in {"ok", "unprinted"} =>
                   WorkerFilename(ImageOf(i)) \in temp_dir.files

\* C9 as the specification states it: after a run-level failure (malformed
\* manifest, archive failure) the manifest file is what it was before the
\* run.
C9_RunFailureKeepsManifest ==
    (disk0.manifest.st = "malformed" \/ zip_error = "archive") => manifest_file = disk0.manifest

\* the files the tasks of this run have saved, from the inputs of the run
OkFiles == {WorkerFilename(x) : x \in {y \in Added : ~Incomplete(y) /\ y.id \notin dl_fail}}

\* C10: the names offered to the archiver are those of the added records,
\* and the files the archiver finds and the archive it writes without an
\* error are a function of the added set, the per-record outcomes and the
\* files the run found in the temporary directory, whatever the pool size
\* and the completion order.
C10_ArchiveIndependentOfSchedule ==
    AfterPool =>
        /\ downloaded_filenames = {WorkerFilename(x) : x \in Added}
        /\ pc = "zip" => temp_dir.files = disk0.temp.files \cup OkFiles
        /\ (zip_file.st = "ok" /\ zip_file.time = runs /\ zip_error = "no") =>
               zip_file.names =
                   {WorkerFilename(x) : x \in Added} \cap (disk0.temp.files \cup OkFiles)

C10_Witness ==
    /\ pc = "done"
    /\ threads >= 2
    /\ zip_file.st = "ok"
    /\ zip_error = "no"
    /\ Cardinality(zip_file.names) >= 2
    /\ \E i \in dl_fail : WorkerFilename(ImageOf(i)) \in zip_file.names
    /\ \E j \in DOMAIN tasks : tasks[j] = "ok"

\* C11: loading the file save_manifest wrote gives, for every key of the
\* saved manifest, the same record under that key written as a str; it gives
\* back the saved manifest itself when all its keys are strs.
C11_ManifestRoundTrip ==
    pc = "loaded" =>
        /\ DOMAIN old_manifest = {PyStr(JsonKey(k)) : k \in DOMAIN current_images_map}
        /\ \A k \in DOMAIN current_images_map :
               old_manifest[PyStr(JsonKey(k))] = current_images_map[k]
        /\ (\A k \in DOMAIN current_images_map : k.t = "str") =>
               old_manifest = current_images_map

C11_Witness ==
    /\ pc = "loaded"
    /\ disk0.manifest.st = "ok"
    /\ manifest_file # disk0.manifest
    /\ Cardinality(DOMAIN current_images_map) >= 3
    /\ \A k \in DOMAIN current_images_map : k.t = "str"
    /\ old_manifest = current_images_map

\* C11 as the specification states it: for any manifest with unique
\* identifiers, the loaded manifest equals the saved one.
C11_RoundTripOfAnyManifest ==
    pc = "loaded" => old_manifest = current_images_map

C13_StopsAtEmptyOrLastPage ==
    /\ requests <= StopPage(remote)
    /\ (pc = "fetched" /\ fetch_failed = 0) =>
           /\ requests = StopPage(remote)
           /\ all_images = Flatten(SubSeq(remote, 1, StopPage(remote)))

\* C14 as the specification states it: at most one task is inside
\* "with progress_lock" at a time, and once every task of the pool has
\* finished the counter equals the number of tasks that ended in a download
\* success or a download failure (the tasks that were not skipped).
C14_NoLostIncrement ==
    /\ Cardinality({i \in DOMAIN tasks : tasks[i] \in {"locked", "relocked"}}) <= 1
    /\ ((pc = "pool" /\ AllSubmitted /\ AllDone(tasks)) \/ AfterPool
            \/ pc = "pool_raised") =>
           download_progress.count =
               Cardinality({i \in DOMAIN tasks : tasks[i] # "skipped"})

\* C15: a record whose download failed is in the manifest the run saves when
\* it reaches its end, and in the next run, when the same listing is fetched
\* in full, it is then neither added nor removed and no task is submitted for
\* it; a run that an exception ends after the pool (of print of the task's
\* message, of the removal of the temporary files) leaves the manifest file
\* as it was, and the next run adds the record and submits its task again.
C15_NotRetriedOnceSaved ==
    /\ pc = "done" =>
           \A i \in DOMAIN tasks : tasks[i] = "failed" => Str(i) \in SavedIds
    /\ pc \in {"pool_raised", "zip_raised", "cleanup_raised"} =>
           manifest_file = disk0.manifest
    /\ (runs >= 2 /\ AfterDiff /\ fetch_failed = 0) =>
           \A i \in prev_run.failed :
               /\ prev_run.pc \in {"done", "pool_raised", "cleanup_raised"}
               /\ prev_run.pc = "done" =>
                      /\ Str(i) \in ManIds
                      /\ \A x \in new_images \cup deleted_images_data : x.id # i
                      /\ i \notin DOMAIN tasks
               /\ prev_run.pc \in {"pool_raised", "cleanup_raised"} =>
                      /\ \E x \in new_images : x.id = i
                      /\ (AfterPool \/ pc = "pool_raised") => tasks[i] \in Terminal

C15_Witness ==
    /\ runs = 2
    /\ pc = "done"
    /\ fetch_failed = 0
    /\ prev_run.pc = "done"
    /\ prev_run.failed # {}
    /\ \A i \in prev_run.failed : Str(i) \in CurIds
    /\ new_images = {}
    /\ tasks = <<>>

\* C15 as the specification states it: a record whose download failed is in
\* the manifest after the run, so that in the next run, when the same
\* listing is fetched in full, it is neither added nor removed and no task is
\* submitted for it.
C15_FailedDownloadNotRetried ==
    /\ pc = "done" =>
           \A i \in DOMAIN tasks : tasks[i] = "failed" => Str(i) \in SavedIds
    /\ (runs >= 2 /\ AfterDiff /\ fetch_failed = 0) =>
           \A i \in prev_run.failed :
               /\ Str(i) \in ManIds
               /\ \A x \in new_images \cup deleted_images_data : x.id # i
               /\ i \notin DOMAIN tasks

====
